---------------------------- MODULE Spec2Model ----------------------------
(***************************************************************************)
(* Model of Lib/signal/splinemodule.c: the five entry points of the spline *)
(* extension module (cspline2d, qspline2d, sepfir2d, symiirorder1,         *)
(* symiirorder2) and the helper convert_strides.                           *)
(*                                                                         *)
(* The module keeps no state between calls, so a behaviour is one call:    *)
(* Init draws the call (entry point, arguments, and what the library and   *)
(* the numerical core will answer), and the action of the entry point the  *)
(* method table selects runs the whole function and records its outcome.   *)
(* The numerical core routines (S_cubic_spline2D, ...) and the array       *)
(* library are outside this file: a core routine is its returned status,   *)
(* a library call is its success or failure.                               *)
(***************************************************************************)
EXTENDS Integers, Sequences, FiniteSets

VARIABLES call, out, cs

vars == <<call, out, cs>>

-----------------------------------------------------------------------------
(* Bounds of the model *)

MaxDim == 2        \* extents of the image / signal range over 1..MaxDim
MaxElSize == 16    \* element sizes given to convert_strides: 1..MaxElSize
MaxStride == 3     \* strides given to convert_strides: 0..MaxStride elements
MaxStatus == 0     \* statuses the core may return: -3..MaxStatus

-----------------------------------------------------------------------------
(* Element types, in the order of the array library's type numbers *)

PyArray_LONG == 7
PyArray_FLOAT == 8
PyArray_DOUBLE == 9
PyArray_CFLOAT == 10
PyArray_CDOUBLE == 11
PyArray_OBJECT == 12

InputTypes == PyArray_LONG .. PyArray_OBJECT

MinFirst(a, b) == a
MIN(a, b) == IF a > b THEN b ELSE a
MAX(a, b) == IF a > b THEN a ELSE b

\* ELSIZE(arr) of an array of a working type
ELSIZE(type) ==
  CASE type = PyArray_FLOAT -> 4
    [] type = PyArray_DOUBLE -> 8
    [] type = PyArray_CFLOAT -> 8
    [] type = PyArray_CDOUBLE -> 16
    [] OTHER -> 8

-----------------------------------------------------------------------------
(* Error messages *)

NOERR == "none"
ERR_PARSE == "TypeError: bad arguments"
ERR_CONVERT == "array conversion failed"
ERR_NOMEM == "array allocation failed"
ERR_SMOOTHING == "Smoothing spline not yet implemented."
ERR_PRECISION == "Precision too high.  Error did not converge."
ERR_PROBLEM == "Problem occured inside routine"
ERR_PROBLEM_DOT == "Problem occured inside routine."
ERR_TYPE == "Incorrect type."

-----------------------------------------------------------------------------
(* Doubles that matter to the code only through comparisons with 0 and 1.  *)
(* [m, e] stands for the double nearest to m * 10^(-e), 1 <= |m| <= 9 or   *)
(* m = 0; nan marks a NaN; r marks a value rounded to single precision.    *)

Dbl(m, e) == [m |-> m, e |-> e, nan |-> FALSE, r |-> FALSE]
NaN == [m |-> 0, e |-> 0, nan |-> TRUE, r |-> FALSE]

\* precision <= 0.0
LeZero(p) == ~p.nan /\ p.m <= 0
\* precision > 1.0
GtOne(p) == ~p.nan /\ p.m > 0 /\ (p.e < 0 \/ (p.e = 0 /\ p.m > 1))

\* if ((precision <= 0.0) || (precision > 1.0)) precision = dflt;
ClampPrecision(precision, dflt) ==
  IF LeZero(precision) \/ GtOne(precision) THEN dflt ELSE precision

\* Smallest positive single-precision value is about 1.4e-45: a positive
\* double below 1e-45 has no single-precision neighbour but 0 and that value.
FltTrueMinExp == 45

\* Values with an exact single-precision representation among those modelled
ExactInSingle(p) == p.nan \/ p.m = 0 \/ p.e = 0 \/ (p.m = 5 /\ p.e = 1)

\* (float)precision. Which neighbour an inexact value rounds to is
\* implementation-defined: `up` selects it.
FloatCast(p, up) ==
  IF ExactInSingle(p) THEN p
  ELSE IF p.m > 0 /\ p.e > FltTrueMinExp
       THEN IF up THEN [Dbl(1, FltTrueMinExp) EXCEPT !.r = TRUE] ELSE Dbl(0, 0)
       ELSE [p EXCEPT !.r = TRUE]

-----------------------------------------------------------------------------
(* Array objects.  obj identifies the object (and its data buffer).        *)

NULL == [obj |-> 0, type |-> 0, dims |-> <<>>, strides |-> <<>>]

ImageObj == 1
HrowObj == 2
HcolObj == 3

\* The caller's objects: the image or signal, and the two kernels
CallerObjs == {ImageObj, HrowObj, HcolObj}

Max(S) == CHOOSE x \in S : \A y \in S : y <= x

\* A newly allocated object: distinct from every object alive
NewObj(live) == Max(live) + 1

\* Strides, in elements, of the layouts an input array may have
ElemStrides(layout, dims) ==
  IF Len(dims) = 2
  THEN CASE layout = "sliced" -> <<2 * dims[2], 2>>
         [] layout = "transposed" -> <<1, dims[1]>>
         [] OTHER -> <<dims[2], 1>>
  ELSE CASE layout = "sliced" -> <<2>>
         [] OTHER -> <<1>>

ByteStrides(layout, dims, elsize) ==
  [n \in 1 .. Len(dims) |-> ElemStrides(layout, dims)[n] * elsize]

\* PyArray_ObjectType(op, minimum_type): the type of op, at least minimum_type
PyArray_ObjectType(op, minimum_type) == MAX(minimum_type, op.type)

\* The library refuses a conversion that loses information (complex to
\* real, double to single); whether a sequence of objects converts is
\* decided by its elements.
PyArray_CanCastSafely(fromtype, totype) ==
  fromtype = PyArray_OBJECT \/ fromtype <= totype

\* PyArray_FromObject(op, type, rank, rank): NULL on failure; op itself (one
\* more reference) when op is already an array of that type, with op's
\* strides; else a new contiguous array.
PyArray_FromObject(op, type, rank, fails, live) ==
  IF fails \/ Len(op.dims) # rank \/ ~PyArray_CanCastSafely(op.type, type)
  THEN NULL
  ELSE IF op.layout # "list" /\ op.type = type
       THEN [obj |-> op.obj, type |-> type, dims |-> op.dims,
             strides |-> ByteStrides(op.layout, op.dims, ELSIZE(type))]
       ELSE [obj |-> NewObj(live), type |-> type, dims |-> op.dims,
             strides |-> ByteStrides("contiguous", op.dims, ELSIZE(type))]

\* PyArray_ContiguousFromObject: as above, but a non-contiguous array is copied
PyArray_ContiguousFromObject(op, type, rank, fails, live) ==
  IF fails \/ Len(op.dims) # rank \/ ~PyArray_CanCastSafely(op.type, type)
  THEN NULL
  ELSE IF op.layout = "contiguous" /\ op.type = type
       THEN [obj |-> op.obj, type |-> type, dims |-> op.dims,
             strides |-> ByteStrides(op.layout, op.dims, ELSIZE(type))]
       ELSE [obj |-> NewObj(live), type |-> type, dims |-> op.dims,
             strides |-> ByteStrides("contiguous", op.dims, ELSIZE(type))]

\* PyArray_FromDims(nd, dims, type): NULL on failure, else a new array
PyArray_FromDims(dims, type, fails, live) ==
  IF fails THEN NULL
  ELSE [obj |-> NewObj(live), type |-> type, dims |-> dims,
        strides |-> ByteStrides("contiguous", dims, ELSIZE(type))]

-----------------------------------------------------------------------------
(* convert_strides *)

\* bitshift = -1;
BitshiftInit == -1

\* size >>= 1  (size >= 0)
Shr1Wrong(size) == size - 1
Shr1(size) == size \div 2

RECURSIVE Pow2(_)
Pow2(k) == IF k <= 0 THEN 1 ELSE 2 * Pow2(k - 1)

\* x >> k for x >= 0, k >= 0
Shr(x, k) == x \div Pow2(k)

\* while (size != 0) { size >>= 1; bitshift++; }
RECURSIVE ShiftLoop(_, _)
ShiftLoop(size, bitshift) ==
  IF size # 0 THEN ShiftLoop(Shr1(size), bitshift + 1) ELSE bitshift

\* The strides written to convstrides; a negative shift count is undefined
\* behaviour and gives any of the values in `undef`.
convert_strides(instrides, size, N, undef) ==
  LET bitshift == ShiftLoop(size, BitshiftInit)
  IN [n \in 1 .. N |->
        IF bitshift < 0 THEN undef ELSE Shr(instrides[n], bitshift)]

-----------------------------------------------------------------------------
(* The outcome of a call *)

NoPrecision == Dbl(0, 0)

NoCall ==
  [entry |-> "none", ret |-> NULL, err |-> NOERR, thetype |-> 0,
   conv |-> NULL, acquired |-> <<>>, released |-> <<>>, crash |-> FALSE,
   core |-> <<>>, retval |-> 0, assigned |-> FALSE, tested |-> FALSE,
   trace |-> <<>>]

Step(o, what) == [o EXCEPT !.trace = Append(@, what)]

\* A reference the call now owns (NULL: nothing acquired)
Acquire(o, name, ref) ==
  IF ref = NULL THEN o ELSE [o EXCEPT !.acquired = Append(@, name)]

Py_XDECREF(o, name, ref) ==
  IF ref = NULL THEN o ELSE [o EXCEPT !.released = Append(@, name)]

Py_DECREF(o, name, ref) ==
  IF ref = NULL THEN [o EXCEPT !.crash = TRUE]
  ELSE [o EXCEPT !.released = Append(@, name)]

\* PYERR(message): set the error, then goto fail
PYERR(o, message) == [o EXCEPT !.err = message]

\* return PyArray_Return(arr)
Return(o, arr) == Step([o EXCEPT !.ret = arr], "return")

\* The kernels of a core call (objects, lengths): none but for sepfir2d
NoKernels == <<<<>>, <<>>>>

\* A call of a core routine, as the entry point makes it
CoreCall(fn, src, dst, dims, lambda, instrides, outstrides, precision, aux) ==
  [fn |-> fn, src |-> src.obj, dst |-> dst.obj, dims |-> dims,
   lambda |-> lambda, instrides |-> instrides, outstrides |-> outstrides,
   precision |-> precision, aux |-> aux]

Invoke(o, c) == Step([o EXCEPT !.core = Append(@, c)], "core")

\* thetype = MIN(PyArray_ObjectType(obj, PyArray_FLOAT), PyArray_DOUBLE)
RealWorkingTypeUncapped(op) == PyArray_ObjectType(op, PyArray_FLOAT)
RealWorkingType(op) ==
  MIN(PyArray_ObjectType(op, PyArray_FLOAT), PyArray_DOUBLE)

\* thetype = MIN(PyArray_ObjectType(obj, PyArray_FLOAT), PyArray_CDOUBLE)
ComplexWorkingType(op) ==
  MIN(PyArray_ObjectType(op, PyArray_FLOAT), PyArray_CDOUBLE)

\* outstrides[0] = N; outstrides[1] = 1;
OutStrides2DSwapped(N) == <<1, N>>
OutStrides2D(N) == <<N, 1>>

\* if (retval == -3) PYERR("Precision too high..."); if (retval < 0) PYERR(...)
SplineStatusErrorGeneric(retval) ==
  IF retval < 0 THEN ERR_PROBLEM ELSE NOERR
SplineStatusError(retval) ==
  IF retval = -3 THEN ERR_PRECISION
  ELSE IF retval < 0 THEN ERR_PROBLEM ELSE NOERR

\* The status tested after the dispatch: what the core returned, or, when no
\* branch assigned it, whatever the variable happens to hold.
ReadStatus(o, assigned, status, garbage) ==
  [o EXCEPT !.assigned = assigned, !.tested = TRUE,
            !.retval = IF assigned THEN status ELSE garbage]

-----------------------------------------------------------------------------
(* cspline2d *)

\* fail: Py_XDECREF(a_image); Py_XDECREF(ck); return NULL;
cspline2d_fail(o, a_image, ck) ==
  Step(Py_XDECREF(Py_XDECREF(Step(o, "fail"), "a_image", a_image), "ck", ck),
       "return")

\* The core call of the float and of the double branch
cspline2d_core_unsmoothed(thetype, a_image, ck, M, N, lambda, instrides, outstrides, precision) ==
  IF thetype = PyArray_FLOAT
  THEN CoreCall("S_cubic_spline2D", a_image, ck, <<M, N>>, 0, instrides,
                outstrides, ClampPrecision(precision, Dbl(1, 3)), NoKernels)
  ELSE CoreCall("D_cubic_spline2D", a_image, ck, <<M, N>>, 0, instrides,
                outstrides, ClampPrecision(precision, Dbl(1, 6)), NoKernels)
cspline2d_core(thetype, a_image, ck, M, N, lambda, instrides, outstrides, precision) ==
  IF thetype = PyArray_FLOAT
  THEN CoreCall("S_cubic_spline2D", a_image, ck, <<M, N>>, lambda, instrides,
                outstrides, ClampPrecision(precision, Dbl(1, 3)), NoKernels)
  ELSE CoreCall("D_cubic_spline2D", a_image, ck, <<M, N>>, lambda, instrides,
                outstrides, ClampPrecision(precision, Dbl(1, 6)), NoKernels)

cspline2d(c, garbage) ==
  LET o0 == Step([NoCall EXCEPT !.entry = "cspline2d"], "parse")
  IN
  IF "parse" \in c.faults THEN Step(PYERR(o0, ERR_PARSE), "return")
  ELSE
  LET thetype == RealWorkingType(c.image)
      a_image == PyArray_FromObject(c.image, thetype, 2, "image" \in c.faults,
                                    CallerObjs)
      o1 == Acquire(Step([o0 EXCEPT !.thetype = thetype, !.conv = a_image],
                         "convert"), "a_image", a_image)
  IN
  IF a_image = NULL THEN cspline2d_fail(PYERR(o1, ERR_CONVERT), a_image, NULL)
  ELSE
  LET ck == PyArray_FromDims(a_image.dims, thetype, "alloc" \in c.faults,
                             CallerObjs \cup {a_image.obj})
      o2 == Acquire(Step(o1, "alloc"), "ck", ck)
  IN
  IF ck = NULL THEN cspline2d_fail(PYERR(o2, ERR_NOMEM), a_image, ck)
  ELSE
  LET M == a_image.dims[1]
      N == a_image.dims[2]
      instrides == convert_strides(a_image.strides, ELSIZE(a_image.type), 2, 0)
      outstrides == OutStrides2D(N)
      dispatched == thetype = PyArray_FLOAT \/ thetype = PyArray_DOUBLE
      o3 == IF dispatched
            THEN Invoke(o2, cspline2d_core(thetype, a_image, ck, M, N, c.lambda,
                                          instrides, outstrides, c.precision))
            ELSE o2
      o4 == ReadStatus(o3, dispatched, c.status, garbage)
      err == SplineStatusError(o4.retval)
  IN
  IF err # NOERR THEN cspline2d_fail(PYERR(o4, err), a_image, ck)
  ELSE Return(Py_DECREF(o4, "a_image", a_image), ck)

-----------------------------------------------------------------------------
(* qspline2d *)

\* if (lambda != 0.0)
SmoothingGuardOff(lambda) == FALSE
SmoothingGuard(lambda) == lambda # 0

qspline2d_fail(o, a_image, ck) ==
  Step(Py_XDECREF(Py_XDECREF(Step(o, "fail"), "a_image", a_image), "ck", ck),
       "return")

qspline2d_core(thetype, a_image, ck, M, N, lambda, instrides, outstrides, precision) ==
  IF thetype = PyArray_FLOAT
  THEN CoreCall("S_quadratic_spline2D", a_image, ck, <<M, N>>, lambda,
                instrides, outstrides, ClampPrecision(precision, Dbl(1, 3)),
                NoKernels)
  ELSE CoreCall("D_quadratic_spline2D", a_image, ck, <<M, N>>, lambda,
                instrides, outstrides, ClampPrecision(precision, Dbl(1, 6)),
                NoKernels)

qspline2d(c, garbage) ==
  LET o0 == Step([NoCall EXCEPT !.entry = "qspline2d"], "parse")
  IN
  IF "parse" \in c.faults THEN Step(PYERR(o0, ERR_PARSE), "return")
  ELSE
  IF SmoothingGuard(c.lambda)
  THEN qspline2d_fail(PYERR(Step(o0, "guard"), ERR_SMOOTHING), NULL, NULL)
  ELSE
  LET thetype == RealWorkingType(c.image)
      a_image == PyArray_FromObject(c.image, thetype, 2, "image" \in c.faults,
                                    CallerObjs)
      o1 == Acquire(Step([o0 EXCEPT !.thetype = thetype, !.conv = a_image],
                         "convert"), "a_image", a_image)
  IN
  IF a_image = NULL THEN qspline2d_fail(PYERR(o1, ERR_CONVERT), a_image, NULL)
  ELSE
  LET ck == PyArray_FromDims(a_image.dims, thetype, "alloc" \in c.faults,
                             CallerObjs \cup {a_image.obj})
      o2 == Acquire(Step(o1, "alloc"), "ck", ck)
  IN
  IF ck = NULL THEN qspline2d_fail(PYERR(o2, ERR_NOMEM), a_image, ck)
  ELSE
  LET M == a_image.dims[1]
      N == a_image.dims[2]
      instrides == convert_strides(a_image.strides, ELSIZE(a_image.type), 2, 0)
      outstrides == OutStrides2D(N)
      dispatched == thetype = PyArray_FLOAT \/ thetype = PyArray_DOUBLE
      o3 == IF dispatched
            THEN Invoke(o2, qspline2d_core(thetype, a_image, ck, M, N, c.lambda,
                                          instrides, outstrides, c.precision))
            ELSE o2
      o4 == ReadStatus(o3, dispatched, c.status, garbage)
      err == SplineStatusError(o4.retval)
  IN
  IF err # NOERR THEN qspline2d_fail(PYERR(o4, err), a_image, ck)
  ELSE Return(Py_DECREF(o4, "a_image", a_image), ck)

-----------------------------------------------------------------------------
(* sepfir2d *)

\* Whether the complex cases of the switch are compiled (#ifdef __GNUC__)
HasCase(thetype, gnuc) ==
  thetype \in {PyArray_FLOAT, PyArray_DOUBLE}
  \/ (gnuc /\ thetype \in {PyArray_CFLOAT, PyArray_CDOUBLE})

ConvolveName(thetype) ==
  CASE thetype = PyArray_FLOAT -> "S_separable_2Dconvolve_mirror"
    [] thetype = PyArray_DOUBLE -> "D_separable_2Dconvolve_mirror"
    [] thetype = PyArray_CFLOAT -> "C_separable_2Dconvolve_mirror"
    [] OTHER -> "Z_separable_2Dconvolve_mirror"

\* if (ret < 0) PYERR("Problem occured inside routine.");
StatusError(ret) == IF ret < 0 THEN ERR_PROBLEM_DOT ELSE NOERR

\* fail: Py_XDECREF(a_image); Py_XDECREF(a_hrow); Py_XDECREF(a_hcol);
\*       Py_XDECREF(out); return NULL;
FIRsepsym2d_fail_leak(o, a_image, a_hrow, a_hcol, res) ==
  Step(Py_XDECREF(Py_XDECREF(Py_XDECREF(Step(o, "fail"),
       "a_image", a_image), "a_hrow", a_hrow), "out", res), "return")
FIRsepsym2d_fail(o, a_image, a_hrow, a_hcol, res) ==
  Step(Py_XDECREF(Py_XDECREF(Py_XDECREF(Py_XDECREF(Step(o, "fail"),
       "a_image", a_image), "a_hrow", a_hrow), "a_hcol", a_hcol), "out", res),
       "return")

FIRsepsym2d(c, garbage) ==
  LET o0 == Step([NoCall EXCEPT !.entry = "sepfir2d"], "parse")
  IN
  IF "parse" \in c.faults THEN Step(PYERR(o0, ERR_PARSE), "return")
  ELSE
  LET thetype == ComplexWorkingType(c.image)
      a_image == PyArray_FromObject(c.image, thetype, 2, "image" \in c.faults,
                                    CallerObjs)
      a_hrow == PyArray_ContiguousFromObject(c.hrow, thetype, 1,
                  "hrow" \in c.faults, CallerObjs \cup {a_image.obj})
      a_hcol == PyArray_ContiguousFromObject(c.hcol, thetype, 1,
                  "hcol" \in c.faults,
                  CallerObjs \cup {a_image.obj, a_hrow.obj})
      o1 == Acquire(Acquire(Acquire(
              Step([o0 EXCEPT !.thetype = thetype, !.conv = a_image], "convert"),
              "a_image", a_image), "a_hrow", a_hrow), "a_hcol", a_hcol)
  IN
  IF a_image = NULL \/ a_hrow = NULL \/ a_hcol = NULL
  THEN FIRsepsym2d_fail(PYERR(o1, ERR_CONVERT), a_image, a_hrow, a_hcol, NULL)
  ELSE
  LET res == PyArray_FromDims(a_image.dims, thetype, "alloc" \in c.faults,
               CallerObjs \cup {a_image.obj, a_hrow.obj, a_hcol.obj})
      o2 == Acquire(Step(o1, "alloc"), "out", res)
  IN
  IF res = NULL
  THEN FIRsepsym2d_fail(PYERR(o2, ERR_NOMEM), a_image, a_hrow, a_hcol, res)
  ELSE
  LET M == a_image.dims[1]
      N == a_image.dims[2]
      instrides == convert_strides(a_image.strides, ELSIZE(a_image.type), 2, 0)
      outstrides == OutStrides2D(N)
  IN
  IF ~HasCase(thetype, c.gnuc)
  THEN FIRsepsym2d_fail(PYERR(o2, ERR_TYPE), a_image, a_hrow, a_hcol, res)
  ELSE
  LET o3 == Invoke(o2, CoreCall(ConvolveName(thetype), a_image, res, <<M, N>>,
                                0, instrides, outstrides, NoPrecision,
                                <<<<a_hrow.obj, a_hcol.obj>>,
                                  <<a_hrow.dims[1], a_hcol.dims[1]>>>>))
      o4 == ReadStatus(o3, TRUE, c.status, garbage)
      err == StatusError(o4.retval)
  IN
  IF err # NOERR
  THEN FIRsepsym2d_fail(PYERR(o4, err), a_image, a_hrow, a_hcol, res)
  ELSE Return(Py_DECREF(Py_DECREF(Py_DECREF(o4, "a_image", a_image),
                                  "a_hrow", a_hrow), "a_hcol", a_hcol), res)

-----------------------------------------------------------------------------
(* symiirorder1 *)

\* fail: Py_XDECREF(a_sig); Py_XDECREF(out); return NULL;
IIRsymorder1_fail(o, a_sig, res) ==
  Step(Py_XDECREF(Py_XDECREF(Step(o, "fail"), "a_sig", a_sig), "out", res),
       "return")

\* The core call of each case of the switch
IIRsymorder1_core(thetype, a_sig, res, N, instrides, outstrides, precision, up) ==
  CASE thetype = PyArray_FLOAT ->
         CoreCall("S_IIR_forback1", a_sig, res, <<N>>, 0, instrides, outstrides,
                  FloatCast(ClampPrecision(precision, Dbl(1, 6)), up), NoKernels)
    [] thetype = PyArray_DOUBLE ->
         CoreCall("D_IIR_forback1", a_sig, res, <<N>>, 0, instrides, outstrides,
                  ClampPrecision(precision, Dbl(1, 11)), NoKernels)
    [] thetype = PyArray_CFLOAT ->
         CoreCall("C_IIR_forback1", a_sig, res, <<N>>, 0, instrides, outstrides,
                  FloatCast(ClampPrecision(precision, Dbl(1, 6)), up), NoKernels)
    [] OTHER ->
         CoreCall("Z_IIR_forback1", a_sig, res, <<N>>, 0, instrides, outstrides,
                  ClampPrecision(precision, Dbl(1, 11)), NoKernels)

IIRsymorder1(c, garbage, up) ==
  LET o0 == Step([NoCall EXCEPT !.entry = "symiirorder1"], "parse")
  IN
  IF "parse" \in c.faults THEN Step(PYERR(o0, ERR_PARSE), "return")
  ELSE
  LET thetype == ComplexWorkingType(c.image)
      a_sig == PyArray_FromObject(c.image, thetype, 1, "image" \in c.faults,
                                  CallerObjs)
      o1 == Acquire(Step([o0 EXCEPT !.thetype = thetype, !.conv = a_sig],
                         "convert"), "a_sig", a_sig)
  IN
  IF a_sig = NULL THEN IIRsymorder1_fail(PYERR(o1, ERR_CONVERT), a_sig, NULL)
  ELSE
  LET res == PyArray_FromDims(a_sig.dims, thetype, "alloc" \in c.faults,
                              CallerObjs \cup {a_sig.obj})
      o2 == Acquire(Step(o1, "alloc"), "out", res)
  IN
  IF res = NULL THEN IIRsymorder1_fail(PYERR(o2, ERR_NOMEM), a_sig, res)
  ELSE
  LET N == a_sig.dims[1]
      instrides == convert_strides(a_sig.strides, ELSIZE(a_sig.type), 1, 0)[1]
      outstrides == 1
  IN
  IF ~HasCase(thetype, c.gnuc)
  THEN IIRsymorder1_fail(PYERR(o2, ERR_TYPE), a_sig, res)
  ELSE
  LET o3 == Invoke(o2, IIRsymorder1_core(thetype, a_sig, res, N, instrides,
                                         outstrides, c.precision, up))
      o4 == ReadStatus(o3, TRUE, c.status, garbage)
      err == StatusError(o4.retval)
  IN
  IF err # NOERR THEN IIRsymorder1_fail(PYERR(o4, err), a_sig, res)
  ELSE Return(Py_DECREF(o4, "a_sig", a_sig), res)

-----------------------------------------------------------------------------
(* symiirorder2 *)

IIRsymorder2_fail(o, a_sig, res) ==
  Step(Py_XDECREF(Py_XDECREF(Step(o, "fail"), "a_sig", a_sig), "out", res),
       "return")

IIRsymorder2_core(thetype, a_sig, res, N, instrides, outstrides, precision) ==
  IF thetype = PyArray_FLOAT
  THEN CoreCall("S_IIR_forback2", a_sig, res, <<N>>, 0, instrides, outstrides,
                ClampPrecision(precision, Dbl(1, 6)), NoKernels)
  ELSE CoreCall("D_IIR_forback2", a_sig, res, <<N>>, 0, instrides, outstrides,
                ClampPrecision(precision, Dbl(1, 11)), NoKernels)

IIRsymorder2(c, garbage) ==
  LET o0 == Step([NoCall EXCEPT !.entry = "symiirorder2"], "parse")
  IN
  IF "parse" \in c.faults THEN Step(PYERR(o0, ERR_PARSE), "return")
  ELSE
  LET thetype == RealWorkingType(c.image)
      a_sig == PyArray_FromObject(c.image, thetype, 1, "image" \in c.faults,
                                  CallerObjs)
      o1 == Acquire(Step([o0 EXCEPT !.thetype = thetype, !.conv = a_sig],
                         "convert"), "a_sig", a_sig)
  IN
  IF a_sig = NULL THEN IIRsymorder2_fail(PYERR(o1, ERR_CONVERT), a_sig, NULL)
  ELSE
  LET res == PyArray_FromDims(a_sig.dims, thetype, "alloc" \in c.faults,
                              CallerObjs \cup {a_sig.obj})
      o2 == Acquire(Step(o1, "alloc"), "out", res)
  IN
  IF res = NULL THEN IIRsymorder2_fail(PYERR(o2, ERR_NOMEM), a_sig, res)
  ELSE
  LET N == a_sig.dims[1]
      instrides == convert_strides(a_sig.strides, ELSIZE(a_sig.type), 1, 0)[1]
      outstrides == 1
  IN
  IF thetype # PyArray_FLOAT /\ thetype # PyArray_DOUBLE
  THEN IIRsymorder2_fail(PYERR(Step(o2, "default"), ERR_TYPE), a_sig, res)
  ELSE
  LET o3 == Invoke(o2, IIRsymorder2_core(thetype, a_sig, res, N, instrides,
                                         outstrides, c.precision))
      o4 == ReadStatus(o3, TRUE, c.status, garbage)
      err == StatusError(o4.retval)
  IN
  IF err # NOERR THEN IIRsymorder2_fail(PYERR(o4, err), a_sig, res)
  ELSE Return(Py_DECREF(o4, "a_sig", a_sig), res)

-----------------------------------------------------------------------------
(* The calls a behaviour may start from *)

\* What a core routine may return: 0 or more on success, -3 when the series
\* of the initial conditions did not converge, other negatives on failure
Statuses == -3 .. MaxStatus

\* lambda: zero (no smoothing) and a non-zero value
Lambdas == {0, 1}

Precisions ==
  {Dbl(-1, 0), Dbl(0, 0), Dbl(2, 0), Dbl(1, 0), Dbl(5, 1), Dbl(1, 50), NaN}

Layouts == {"list", "contiguous", "sliced", "transposed"}

Images(rank) ==
  [obj : {ImageObj}, type : InputTypes, layout : Layouts,
   dims : IF rank = 2 THEN {<<m, n>> : m \in 1 .. MaxDim, n \in 1 .. MaxDim}
          ELSE {<<n>> : n \in 1 .. MaxDim}]

Kernel(obj, len) ==
  [obj |-> obj, type |-> PyArray_FLOAT, layout |-> "contiguous",
   dims |-> <<len>>]

\* A failed argument parse ends the call before anything else is attempted
Faults(names) == {{"parse"}} \cup SUBSET names

Calls(name) ==
  CASE name \in {"cspline2d", "qspline2d"} ->
         [name : {name}, faults : Faults({"image", "alloc"}),
          image : Images(2), hrow : {Kernel(HrowObj, 1)},
          hcol : {Kernel(HcolObj, 1)}, lambda : Lambdas,
          precision : Precisions, status : Statuses, gnuc : {TRUE}]
    [] name = "sepfir2d" ->
         [name : {name}, faults : Faults({"image", "hrow", "hcol", "alloc"}),
          image : Images(2), hrow : {Kernel(HrowObj, 1)},
          hcol : {Kernel(HcolObj, 3)}, lambda : {0},
          precision : {NoPrecision}, status : Statuses, gnuc : BOOLEAN]
    [] name = "symiirorder1" ->
         [name : {name}, faults : Faults({"image", "alloc"}),
          image : Images(1), hrow : {Kernel(HrowObj, 1)},
          hcol : {Kernel(HcolObj, 1)}, lambda : {0},
          precision : Precisions, status : Statuses, gnuc : BOOLEAN]
    [] OTHER ->
         [name : {name}, faults : Faults({"image", "alloc"}),
          image : Images(1), hrow : {Kernel(HrowObj, 1)},
          hcol : {Kernel(HcolObj, 1)}, lambda : {0},
          precision : Precisions, status : Statuses, gnuc : {TRUE}]

\* toolbox_module_methods
Methods == {"cspline2d", "qspline2d", "sepfir2d", "symiirorder1", "symiirorder2"}

CSIdle ==
  [pc |-> "idle", size |-> 0, size0 |-> 0, N |-> 0, instrides |-> <<>>,
   convstrides |-> <<>>, bitshift |-> 0, n |-> 0, iters |-> 0]

Init ==
  /\ \E name \in Methods : call \in Calls(name)
  /\ out = NoCall
  /\ cs = CSIdle

Call_cspline2d ==
  /\ out.entry = "none" /\ call.name = "cspline2d"
  /\ \E garbage \in Statuses : out' = cspline2d(call, garbage)
  /\ UNCHANGED <<call, cs>>

Call_qspline2d ==
  /\ out.entry = "none" /\ call.name = "qspline2d"
  /\ \E garbage \in Statuses : out' = qspline2d(call, garbage)
  /\ UNCHANGED <<call, cs>>

Call_sepfir2d ==
  /\ out.entry = "none" /\ call.name = "sepfir2d"
  /\ \E garbage \in Statuses : out' = FIRsepsym2d(call, garbage)
  /\ UNCHANGED <<call, cs>>

Call_symiirorder1 ==
  /\ out.entry = "none" /\ call.name = "symiirorder1"
  /\ \E garbage \in Statuses, up \in BOOLEAN :
       out' = IIRsymorder1(call, garbage, up)
  /\ UNCHANGED <<call, cs>>

Call_symiirorder2 ==
  /\ out.entry = "none" /\ call.name = "symiirorder2"
  /\ \E garbage \in Statuses : out' = IIRsymorder2(call, garbage)
  /\ UNCHANGED <<call, cs>>

Next ==
  \/ Call_cspline2d
  \/ Call_qspline2d
  \/ Call_sepfir2d
  \/ Call_symiirorder1
  \/ Call_symiirorder2

Spec == Init /\ [][Next]_vars

-----------------------------------------------------------------------------
(* convert_strides, statement by statement *)

FrameSizes == 1 .. MaxElSize

FrameStrides(size) ==
  {k * size : k \in 0 .. MaxStride} \cup {k * size + 1 : k \in 0 .. MaxStride}

\* The frame on entry, after bitshift = -1
Frames ==
  UNION {[pc : {"while"}, size : {size}, size0 : {size}, N : {N},
          instrides : [1 .. N -> FrameStrides(size)],
          convstrides : {[n \in 1 .. N |-> -1]},
          bitshift : {BitshiftInit}, n : {0}, iters : {0}] :
         size \in FrameSizes, N \in 1 .. 2}

\* No entry point is being called
NoPendingCall ==
  [name |-> "none", faults |-> {}, image |-> Kernel(ImageObj, 1),
   hrow |-> Kernel(HrowObj, 1), hcol |-> Kernel(HcolObj, 1), lambda |-> 0,
   precision |-> NoPrecision, status |-> 0, gnuc |-> TRUE]

InitCS ==
  /\ call = NoPendingCall
  /\ out = NoCall
  /\ cs \in Frames

\* while (size != 0) { size >>= 1; bitshift++; }
CS_WhileBody ==
  /\ cs.pc = "while" /\ cs.size # 0
  /\ cs' = [cs EXCEPT !.size = Shr1(@), !.bitshift = @ + 1, !.iters = @ + 1]
  /\ UNCHANGED <<call, out>>

CS_WhileExit ==
  /\ cs.pc = "while" /\ cs.size = 0
  /\ cs' = [cs EXCEPT !.pc = "for", !.n = 0]
  /\ UNCHANGED <<call, out>>

\* for (n = 0; n < N; n++) convstrides[n] = instrides[n] >> bitshift;
CS_ForBody ==
  /\ cs.pc = "for" /\ cs.n < cs.N
  /\ \E undef \in {-1, 0} :
       cs' = [cs EXCEPT !.convstrides[cs.n + 1] =
                          IF cs.bitshift < 0 THEN undef
                          ELSE Shr(cs.instrides[cs.n + 1], cs.bitshift),
                        !.n = @ + 1]
  /\ UNCHANGED <<call, out>>

CS_ForExit ==
  /\ cs.pc = "for" /\ cs.n >= cs.N
  /\ cs' = [cs EXCEPT !.pc = "done"]
  /\ UNCHANGED <<call, out>>

NextCS ==
  \/ CS_WhileBody
  \/ CS_WhileExit
  \/ CS_ForBody
  \/ CS_ForExit

SpecCS == InitCS /\ [][NextCS]_vars

-----------------------------------------------------------------------------
(* Vocabulary of the properties *)

Range(q) == {q[i] : i \in 1 .. Len(q)}

NoDuplicates(q) == Cardinality(Range(q)) = Len(q)

Parsed == out.entry # "none" /\ "parse" \notin call.faults

Splines == {"cspline2d", "qspline2d"}
IIRs == {"symiirorder1", "symiirorder2"}
RealOnly == {"cspline2d", "qspline2d", "symiirorder2"}

RealCores ==
  {"S_cubic_spline2D", "D_cubic_spline2D", "S_quadratic_spline2D",
   "D_quadratic_spline2D", "S_IIR_forback2", "D_IIR_forback2"}

SingleCores ==
  {"S_cubic_spline2D", "S_quadratic_spline2D", "S_IIR_forback1",
   "C_IIR_forback1", "S_IIR_forback2"}

\* 0 < p <= 1
InUnit(p) == ~p.nan /\ p.m > 0 /\ ~GtOne(p)

\* Equal up to rounding to single precision
SameValue(p, q) == p.nan = q.nan /\ p.m = q.m /\ p.e = q.e

\* p < q for two negative powers of ten
Finer(p, q) == p.m = 1 /\ q.m = 1 /\ p.e > q.e

SingleDefault(entry) == IF entry \in Splines THEN Dbl(1, 3) ELSE Dbl(1, 6)
DoubleDefault(entry) == IF entry \in Splines THEN Dbl(1, 6) ELSE Dbl(1, 11)

ExpectedDefault(entry, fn) ==
  IF fn \in SingleCores THEN SingleDefault(entry) ELSE DoubleDefault(entry)

Cap(entry) == IF entry \in RealOnly THEN PyArray_DOUBLE ELSE PyArray_CDOUBLE

\* The smaller of cap and the larger of type t and float32
CappedType(t, cap) ==
  LET atLeastFloat == IF t < PyArray_FLOAT THEN PyArray_FLOAT ELSE t
  IN IF atLeastFloat < cap THEN atLeastFloat ELSE cap

NumericInput == call.image.type <= PyArray_CDOUBLE

ResultName == IF out.entry \in Splines THEN "ck" ELSE "out"

IsPow2(s) == \E k \in 0 .. s : Pow2(k) = s

FloorLog2(s) == CHOOSE k \in 0 .. s : Pow2(k) <= s /\ s < Pow2(k + 1)

-----------------------------------------------------------------------------
C2_SplineStatusMapping ==
  (out.entry \in Splines /\ out.core # <<>>) =>
     /\ out.tested /\ out.assigned /\ out.retval = call.status
     /\ (call.status = -3) => (out.err = ERR_PRECISION /\ out.ret = NULL)
     /\ (call.status < 0 /\ call.status # -3) =>
          (out.err = ERR_PROBLEM /\ out.ret = NULL)
     /\ (call.status >= 0) =>
          (out.err = NOERR /\ out.ret # NULL /\ out.ret.obj = out.core[1].dst)

C2_Witness ==
  /\ out.entry = "cspline2d"
  /\ out.core # <<>>
  /\ call.status = -3
  /\ out.err = ERR_PRECISION
  /\ out.ret = NULL

(* C3: in symiirorder1 and symiirorder2 a core status of -3 is reported as *)
(* the convergence failure, not as the error of the other negative         *)
(* statuses.                                                               *)
C3_IIRConvergenceDistinct ==
  (out.entry \in IIRs /\ out.core # <<>> /\ call.status = -3) =>
     (out.err = ERR_PRECISION /\ out.err # ERR_PROBLEM_DOT)

(* C4: the precision handed to a core routine lies in (0,1]: a given value *)
(* in (0,1] is passed on unchanged, any other value is replaced by the     *)
(* default of the branch, and the double default is finer than the single. *)
C4_PrecisionInUnitInterval ==
  (out.entry \in Splines \cup IIRs) =>
     \A i \in 1 .. Len(out.core) :
        LET p == out.core[i].precision
            d == ExpectedDefault(out.entry, out.core[i].fn)
        IN /\ InUnit(p)
           /\ InUnit(call.precision) => SameValue(p, call.precision)
           /\ ~InUnit(call.precision) => SameValue(p, d)
           /\ Finer(DoubleDefault(out.entry), SingleDefault(out.entry))

C6_FreshContiguousResult ==
  \A i \in 1 .. Len(out.core) :
     LET c == out.core[i]
     IN /\ c.src = out.conv.obj
        /\ c.dst \notin CallerObjs \cup {c.src}
        /\ c.dst \notin Range(c.aux[1])
        /\ c.src = ImageObj \/ c.src \notin CallerObjs
        /\ c.dims = out.conv.dims
        /\ c.dims = call.image.dims
        /\ c.outstrides = IF Len(c.dims) = 2 THEN <<c.dims[2], 1>> ELSE 1
        /\ out.ret # NULL =>
             /\ out.ret.obj = c.dst
             /\ out.ret.dims = out.conv.dims
             /\ out.ret.type = out.thetype
             /\ out.ret.type = out.conv.type

C6_Witness ==
  /\ out.entry = "cspline2d"
  /\ call.image.layout = "sliced"
  /\ call.image.dims = <<2, 2>>
  /\ out.conv.obj = ImageObj
  /\ out.ret # NULL
  /\ out.core[1].instrides = <<4, 2>>
  /\ out.core[1].outstrides = <<2, 1>>

(* C7: cspline2d with lambda != 0 either reports an error or calls the     *)
(* cubic core routine with exactly the caller's lambda.                    *)
C7_LambdaReachesCore ==
  (out.entry = "cspline2d" /\ call.lambda # 0) =>
     /\ \A i \in 1 .. Len(out.core) :
           /\ out.core[i].lambda = call.lambda
           /\ out.core[i].fn \in {"S_cubic_spline2D", "D_cubic_spline2D"}
     /\ out.ret # NULL => (Len(out.core) = 1 /\ out.err = NOERR)
     /\ out.ret = NULL => out.err # NOERR

C7_Witness ==
  /\ out.entry = "cspline2d"
  /\ call.lambda # 0
  /\ out.ret # NULL
  /\ Len(out.core) = 1
  /\ out.core[1].lambda = call.lambda

(* C8: on every exit path each reference the call acquired is released     *)
(* exactly once, except the result, which on success is returned instead;  *)
(* nothing is released twice, nothing that was not acquired is released,   *)
(* and a failed call returns nothing.                                      *)
C8_ReferencesBalanced ==
  (out.entry # "none") =>
     /\ ~out.crash
     /\ NoDuplicates(out.released)
     /\ NoDuplicates(out.acquired)
     /\ Range(out.released) \subseteq Range(out.acquired)
     /\ (out.err # NOERR) <=> (out.ret = NULL)
     /\ out.ret = NULL => Range(out.released) = Range(out.acquired)
     /\ out.ret # NULL =>
          /\ ResultName \in Range(out.acquired)
          /\ Range(out.released) = Range(out.acquired) \ {ResultName}

C8_Witness ==
  /\ out.entry = "sepfir2d"
  /\ call.faults = {"hrow"}
  /\ out.acquired = <<"a_image", "a_hcol">>
  /\ out.released = <<"a_image", "a_hcol">>
  /\ out.ret = NULL

(* C9: in cspline2d, qspline2d and symiirorder2 the working type is        *)
(* float32 or float64 for every input type, so once the input is converted *)
(* and the result allocated exactly one real core routine is called, the   *)
(* status tested is the one it returned, and the "Incorrect type" branch   *)
(* of symiirorder2 is never taken.                                         *)
C9_RealDispatch ==
  (out.entry \in RealOnly /\ Parsed /\ "convert" \in Range(out.trace)) =>
     /\ out.thetype \in {PyArray_FLOAT, PyArray_DOUBLE}
     /\ Len(out.core) <= 1
     /\ \A i \in 1 .. Len(out.core) : out.core[i].fn \in RealCores
     /\ (out.acquired # <<>> /\ out.acquired[Len(out.acquired)] = ResultName)
          => Len(out.core) = 1
     /\ out.tested => (out.assigned /\ out.retval = call.status
                       /\ Len(out.core) = 1)
     /\ "default" \notin Range(out.trace)
     /\ out.err # ERR_TYPE

C9_Witness ==
  /\ out.entry = "symiirorder2"
  /\ call.image.type = PyArray_OBJECT
  /\ out.thetype = PyArray_DOUBLE
  /\ out.tested
  /\ out.core[1].fn = "D_IIR_forback2"

(* The frame of convert_strides at each statement: the iterations of the   *)
(* shift loop, the shift count, and the strides written.                   *)
C10_FrameOk ==
  (cs.pc # "idle") =>
     /\ cs.iters <= FloorLog2(cs.size0) + 1
     /\ cs.pc = "while" => cs.bitshift = cs.iters - 1
     /\ cs.pc \in {"for", "done"} =>
          /\ cs.iters = FloorLog2(cs.size0) + 1
          /\ cs.bitshift = FloorLog2(cs.size0)
          /\ cs.bitshift >= 0
     /\ cs.pc # "done" => ENABLED NextCS
     /\ cs.pc = "done" =>
          /\ cs.n = cs.N
          /\ (/\ IsPow2(cs.size0)
              /\ \A n \in 1 .. cs.N : cs.instrides[n] % cs.size0 = 0)
             => \A n \in 1 .. cs.N :
                   /\ cs.convstrides[n] * cs.size0 = cs.instrides[n]
                   /\ cs.convstrides[n] = cs.instrides[n] \div cs.size0

(* C10: for a size > 0 the shift loop of convert_strides ends after        *)
(* floor(log2(size)) + 1 iterations with a shift count >= 0; for a size    *)
(* that is a power of two and strides that are non-negative multiples of   *)
(* it, each converted stride is the input stride divided by the size; no   *)
(* step writes the input strides.                                          *)
C10_ConvertStrides ==
  []C10_FrameOk /\ [][cs'.instrides = cs.instrides /\ cs'.N = cs.N]_vars

C10_Witness ==
  /\ cs.pc = "done"
  /\ cs.size0 = 16
  /\ cs.N = 2
  /\ cs.instrides = <<32, 16>>
  /\ cs.convstrides = <<2, 1>>
  /\ cs.iters = 5

=============================================================================
